---- MODULE Spec2Model ----
(***************************************************************************)
(* Model of pkg/k3d: AdjustGitopsRepo and AdjustMetaphorRepo               *)
(* (adjustContent.go) with the constants of config.go.                     *)
(*                                                                         *)
(* The state is the file system the two functions work on, the go-git      *)
(* repository AdjustMetaphorRepo builds, the arguments of the calls and    *)
(* the position of the running call.  A path is a sequence of segments     *)
(* (<<"k1", "gitops", "ci">> is /k1/gitops/ci).  A file's content is a     *)
(* sequence of lines, a line a sequence of tokens; an ordinary template    *)
(* file holds one line, the path it was created at, so that a copy can be  *)
(* traced to its origin.                                                   *)
(***************************************************************************)
EXTENDS Naturals, Sequences, FiniteSets, TLC

VARIABLES fs, repo, args, arch, pc, idx, err, ret, steps, faults,
          calls

vars == <<fs, repo, args, arch, pc, idx, err, ret, steps, faults,
          calls>>

(***************************************************************************)
(* Bounds of the model.                                                    *)
(***************************************************************************)
\* environment faults (a failing system call) injected in one behaviour
MaxFaults == 1
\* calls of the two functions in one behaviour
MaxCalls == 2

(***************************************************************************)
(* Program constants.                                                      *)
(***************************************************************************)
CloudProvider == "k3d"

\* pkg.SupportedPlatforms, in iteration order
SupportedPlatforms == <<"aws-github", "aws-gitlab", "k3d-github", "k3d-gitlab">>

GitopsPlaceholder == "GITOPS_REPO_NAME"

MetaphorPlaceholder == "METAPHOR_REPO_NAME"

CommitMessage == "committing initial detokenized metaphor repo content"

(***************************************************************************)
(* Strings.  fmt.Sprintf("%s-%s", a, b) and the quoting of the sed         *)
(* replacement are string concatenations.                                  *)
(***************************************************************************)
Platform(cloud, git) == cloud \o "-" \o git

Quoted(name) == "\"" \o name \o "\""

(***************************************************************************)
(* Paths.                                                                  *)
(***************************************************************************)
IsPrefix(p, q) == Len(p) <= Len(q) /\ SubSeq(q, 1, Len(p)) = p

Parent(p) == SubSeq(p, 1, Len(p) - 1)

Last(p) == p[Len(p)]

\* the path dst/rel for the path src/rel
Rebase(p, src, dst) == dst \o SubSeq(p, Len(src) + 1, Len(p))

Prefixes(p) == {SubSeq(p, 1, n) : n \in 1..Len(p)}

(***************************************************************************)
(* The copy filter.  The two string tests are decided on the names the     *)
(* model uses: strings.HasSuffix(src, ".git") looks at the end of the last *)
(* segment, strings.Index(src, "/.terraform") > 0 finds a segment that     *)
(* starts with .terraform anywhere but at offset 0 of the path.            *)
(***************************************************************************)
NamesWithGitSuffix == {".git", "charts.git"}

NamesWithTerraformPrefix == {".terraform", ".terraform.lock.hcl"}

HasSuffixGit(src) == Last(src) \in NamesWithGitSuffix

IndexTerraformPositive(src) ==
    /\ src[1] \notin NamesWithTerraformPrefix
    /\ \E i \in 2..Len(src) : src[i] \in NamesWithTerraformPrefix

Skip(src) ==
    IF HasSuffixGit(src) THEN TRUE
    ELSE IF IndexTerraformPositive(src) THEN TRUE
    ELSE FALSE

(***************************************************************************)
(* The file system: a function from the paths that exist to their nodes.   *)
(***************************************************************************)
Dir == [kind |-> "dir", content |-> <<>>]

File(content) == [kind |-> "file", content |-> content]

Exists(f, p) == p \in DOMAIN f

IsDir(f, p) == Exists(f, p) /\ f[p].kind = "dir"

IsFile(f, p) == Exists(f, p) /\ f[p].kind = "file"

Under(f, p) == {q \in DOMAIN f : IsPrefix(p, q)}

\* os.MkdirAll(p): the directories of p that are missing
MkdirAll(f, p) ==
    [q \in DOMAIN f \cup Prefixes(p) |-> IF q \in DOMAIN f THEN f[q] ELSE Dir]

\* os.Mkdir(p): one directory, only when its parent is there and p is not
MkdirErr(f, p) ==
    IF Exists(f, p) THEN "EEXIST"
    ELSE IF Len(p) > 1 /\ ~Exists(f, Parent(p)) THEN "ENOENT"
    ELSE IF Len(p) > 1 /\ ~IsDir(f, Parent(p)) THEN "ENOTDIR"
    ELSE "nil"

Mkdir(f, p) ==
    IF MkdirErr(f, p) = "nil"
    THEN [q \in DOMAIN f \cup {p} |-> IF q = p THEN Dir ELSE f[q]]
    ELSE f

\* os.RemoveAll(p): the whole subtree; an absent path is no error
RemoveAll(f, p) == [q \in DOMAIN f \ Under(f, p) |-> f[q]]

\* os.Remove(p): a file or an empty directory
RemoveErr(f, p) ==
    IF ~Exists(f, p) THEN "ENOENT"
    ELSE IF Under(f, p) # {p} THEN "ENOTEMPTY"
    ELSE "nil"

Remove(f, p) ==
    IF RemoveErr(f, p) = "nil" THEN [q \in DOMAIN f \ {p} |-> f[q]] ELSE f

(***************************************************************************)
(* cp.Copy(src, dest, opt) of github.com/otiai10/copy.  The source itself  *)
(* is never tested by opt.Skip; every entry below it is, and a skipped     *)
(* directory is not descended into.  A call without options copies every  *)
(* entry.  A copy that cannot be carried out (no source, a file where a  *)
(* directory is needed or the reverse) returns an error; the entries it    *)
(* wrote before the error are not modelled.                                *)
(***************************************************************************)
Skipped(src, p) ==
    \E n \in (Len(src) + 1)..Len(p) : Skip(SubSeq(p, 1, n))

Copied(f, src, filtered) ==
    {p \in Under(f, src) : ~(filtered /\ Skipped(src, p))}

CopyErr(f, src, dst, filtered) ==
    IF ~Exists(f, src) THEN "ENOENT"
    ELSE IF \E q \in Prefixes(Parent(dst)) : IsFile(f, q) THEN "ENOTDIR"
    ELSE IF \E p \in Copied(f, src, filtered) :
               LET q == Rebase(p, src, dst)
               IN  Exists(f, q) /\ f[q].kind # f[p].kind
         THEN IF IsDir(f, src) THEN "ENOTDIR" ELSE "EISDIR"
    ELSE "nil"

CopyInto(f, src, dst, filtered) ==
    LET base    == MkdirAll(f, Parent(dst))
        targets == {Rebase(p, src, dst) : p \in Copied(f, src, filtered)}
    IN  [q \in DOMAIN base \cup targets |->
            IF q \in targets THEN f[Rebase(q, dst, src)] ELSE base[q]]

Copy(f, src, dst) == CopyInto(f, src, dst, TRUE)

(***************************************************************************)
(* sed -i 's/PLACEHOLDER/"name"/' path: on every line the first occurrence *)
(* of the placeholder is replaced (the command carries no g flag).         *)
(***************************************************************************)
FirstAt(line, ph) ==
    IF \E i \in 1..Len(line) : line[i] = ph
    THEN CHOOSE i \in 1..Len(line) :
            line[i] = ph /\ \A j \in 1..(i - 1) : line[j] # ph
    ELSE 0

SedLine(line, ph, name) ==
    LET i == FirstAt(line, ph)
    IN  IF i = 0 THEN line ELSE [line EXCEPT ![i] = Quoted(name)]

SedContent(content, ph, name) ==
    [n \in 1..Len(content) |-> SedLine(content[n], ph, name)]

SedErr(f, path) == IF IsFile(f, path) THEN "nil" ELSE "ENOENT"

Sed(f, path, ph, name) ==
    [f EXCEPT ![path] = File(SedContent(f[path].content, ph, name))]

(***************************************************************************)
(* The arguments of the calls and the template tree they start from.       *)
(***************************************************************************)
CloudProviders == {"k3d", "aws"}

GitProviders == {"github", "gitlab", "bitbucket"}

ClusterTypes == {"local", "production"}

\* the cluster types whose manifests include atlantis.yaml
ClusterTypesWithAtlantis == {"local"}

K1Dir == <<"k1">>

\* gitopsRepoDir: the directory the ci content is read from, {k1Dir}/gitops,
\* or another directory of k1Dir
GitopsDirs == {<<"k1", "gitops">>, <<"k1", "alt">>}

\* gitProvider of AdjustMetaphorRepo: the provider the gitops tree was
\* adjusted for, or one the switch has no case for
MetaphorGitProviders(gitProvider) == {gitProvider, "bitbucket"}

Platforms == {SupportedPlatforms[i] : i \in 1..Len(SupportedPlatforms)}

\* the variants whose repos.tf.tmpl names a placeholder twice on a line
TwiceOnALine == {"aws-gitlab", "k3d-gitlab"}

Occurrences(v) == IF v \in TwiceOnALine THEN 2 ELSE 1

Line(ph, occ) == <<"name", "=">> \o [i \in 1..occ |-> ph]

\* repos.tf.tmpl: its origin, two lines to receive the gitops name and one
\* to receive the metaphor name
ReposTmpl(path, occ) ==
    <<path, Line(GitopsPlaceholder, occ), Line(GitopsPlaceholder, 1),
      Line(MetaphorPlaceholder, occ)>>

ConsoleAmd == <<"components", "kubefirst", "console.yaml">>

ConsoleArm == <<"components", "kubefirst", "console-arm.yaml">>

VariantFiles(g, v) ==
    {g \o <<v, "cluster-types", ct>> \o rel :
        ct \in ClusterTypes, rel \in {ConsoleAmd, ConsoleArm}}
    \cup {g \o <<v, "cluster-types", ct, "atlantis.yaml">> :
             ct \in ClusterTypesWithAtlantis}
    \cup {g \o <<v, "terraform", "github", "repos.tf.tmpl">>,
          g \o <<v, "terraform", ".terraform.lock.hcl">>,
          g \o <<v, "terraform", ".terraform", "terraform.tfstate">>}

RootFiles(g) ==
    {g \o <<"services", "service.yaml">>,
     g \o <<"metaphor", "Dockerfile">>,
     g \o <<"metaphor", "app.js">>,
     g \o <<"metaphor", "charts.git">>,
     g \o <<"metaphor", ".git", "HEAD">>}

\* the ci content, which the code reads below {k1Dir}/gitops
CiFiles(k1Dir) ==
    {k1Dir \o <<"gitops", "ci", ".github", "workflows", "main.yaml">>,
     k1Dir \o <<"gitops", "ci", ".gitlab-ci.yml">>,
     k1Dir \o <<"gitops", "ci", ".argo", "ci.yaml">>}

TemplateFiles(g) ==
    RootFiles(g) \cup CiFiles(K1Dir)
                 \cup UNION {VariantFiles(g, v) : v \in Platforms}

TemplateTree(g) ==
    LET files == TemplateFiles(g)
        paths == UNION {Prefixes(p) : p \in files}
    IN  [p \in paths |->
            IF p \notin files THEN Dir
            ELSE IF Last(p) = "repos.tf.tmpl"
                 THEN File(ReposTmpl(p, Occurrences(p[Len(g) + 1])))
            ELSE File(<<p>>)]

\* the go-git repository of the metaphor directory, before git init
NoRepo == [init |-> FALSE, head |-> "", refs |-> {}, commits |-> <<>>,
           remotes |-> {}]

ArgsOf(cloudProviders, clusterTypes, gitopsRepoDirs, gitProviders, flags) ==
    [cloudProvider : cloudProviders, clusterName : {"dev"},
     clusterType : clusterTypes, gitopsRepoDir : gitopsRepoDirs,
     gitopsRepoName : {"gitops"}, gitProvider : gitProviders,
     metaphorGitProvider : {""},
     k1Dir : {K1Dir}, removeAtlantis : flags,
     destinationMetaphorRepoGitURL : {"git@github.com:owner/metaphor.git"},
     metaphorRepoName : {"metaphor"}]

\* every combination of arguments on {k1Dir}/gitops; on the other directory
\* the combinations that differ in the git provider
Args ==
    ArgsOf(CloudProviders, ClusterTypes, {K1Dir \o <<"gitops">>}, GitProviders,
           BOOLEAN)
    \cup ArgsOf({CloudProvider}, {"production"},
                GitopsDirs \ {K1Dir \o <<"gitops">>}, {"github", "gitlab"},
                {TRUE})

\* runtime.GOARCH of the host
Archs(gitopsRepoDir) ==
    IF gitopsRepoDir = K1Dir \o <<"gitops">> THEN {"amd64", "arm64"}
    ELSE {"amd64"}

Setup ==
    /\ args \in Args
    /\ arch \in Archs(args.gitopsRepoDir)
    /\ fs = TemplateTree(args.gitopsRepoDir)
    /\ repo = NoRepo
    /\ pc = "idle"
    /\ idx = 0
    /\ err = "nil"
    /\ ret = [op |-> "none", err |-> "nil"]
    /\ steps = <<>>
    /\ calls = 0

\* faults counts the faults the environment may still raise
Init == Setup /\ faults = MaxFaults

\* an environment in which no system call fails for a reason of its own
InitReliable == Setup /\ faults = 0

(***************************************************************************)
(* The go-git repository.  refs are the branch references, HEAD is a       *)
(* symbolic reference to a branch, a commit records its message and the    *)
(* files of the worktree it snapshots.                                     *)
(***************************************************************************)
DotGit(dir) == dir \o <<".git">>

ErrRepositoryAlreadyExists == "repository already exists"

ErrReferenceNotFound == "reference not found"

ErrRemoteExists == "remote already exists"

\* PlainInitErr, were a directory that holds a repository initialized again
PlainInitErrNever(f, dir) == "nil"

\* PlainInitErr, were the repository looked for in dir itself, as that of a
\* bare repository is
PlainInitErrBare(f, dir) ==
    IF Exists(f, dir \o <<"HEAD">>) THEN ErrRepositoryAlreadyExists ELSE "nil"

\* git.PlainInit(dir, false) refuses a directory that holds a repository
PlainInitErr(f, dir) ==
    IF Exists(f, DotGit(dir)) THEN ErrRepositoryAlreadyExists ELSE "nil"

PlainInit == [init |-> TRUE, head |-> "master", refs |-> {}, commits |-> <<>>,
              remotes |-> {}]

Worktree(f, dir) ==
    {p \in Under(f, dir) : IsFile(f, p) /\ ~IsPrefix(DotGit(dir), p)}

HeadCommits(r) == {ref.commit : ref \in {x \in r.refs : x.name = r.head}}

SetReference(refs, name, commit) ==
    {x \in refs : x.name # name} \cup {[name |-> name, commit |-> commit]}

\* gitClient.Commit(repo, msg): stage everything, commit on the branch of HEAD
Commit(r, f, dir, msg) ==
    LET n == Len(r.commits) + 1
    IN  [r EXCEPT !.commits = Append(@, [message |-> msg,
                                         tree |-> Worktree(f, dir)]),
                  !.refs = SetReference(@, r.head, n)]

\* gitClient.SetRefToMainBranch(repo): main points at the commit of HEAD and
\* is checked out
SetRefToMainBranchErr(r) ==
    IF HeadCommits(r) = {} THEN ErrReferenceNotFound ELSE "nil"

SetRefToMainBranch(r) ==
    LET c == CHOOSE c \in HeadCommits(r) : TRUE
    IN  [r EXCEPT !.refs = SetReference(@, "main", c), !.head = "main"]

\* RemoveReference, were the reference removed the new branch
RemoveReferenceMain(r, name) == [r EXCEPT !.refs = {x \in @ : x.name # "main"}]

\* Storer.RemoveReference(name): a reference that is not there is no error
RemoveReference(r, name) == [r EXCEPT !.refs = {x \in @ : x.name # name}]

\* Repository.CreateRemote refuses a name that is taken
CreateRemoteErr(r, name) ==
    IF \E x \in r.remotes : x.name = name THEN ErrRemoteExists ELSE "nil"

CreateRemote(r, name, urls) ==
    [r EXCEPT !.remotes = @ \cup {[name |-> name, urls |-> urls]}]

(***************************************************************************)
(* Bookkeeping shared by the steps of both functions.  A system call may   *)
(* fail for a reason of the environment (permissions, a full disk): it     *)
(* then returns EIO and changes nothing.  Such a fault is drawn at most    *)
(* MaxFaults times in a behaviour.  natural is the error the call returns  *)
(* on the present state, "nil" when it succeeds.                           *)
(***************************************************************************)
Outcomes == IF faults > 0 THEN {"ok", "fault"} ELSE {"ok"}

Count(o) == IF o = "fault" THEN faults - 1 ELSE faults

Result(o, natural) == IF o = "fault" THEN "EIO" ELSE natural

Did(op, step, target, e) ==
    Append(steps, [call |-> calls, op |-> op, step |-> step, target |-> target,
                   err |-> e])

\* return e from the running call
Return(op, e) ==
    /\ pc' = "idle"
    /\ idx' = 0
    /\ err' = "nil"
    /\ ret' = [op |-> op, err |-> e]

\* Dropped, were the error tested and returned
DroppedReturned(op, at, step, target, natural, newFs, next) ==
    /\ pc = at
    /\ \E o \in Outcomes :
          LET e == Result(o, natural)
          IN  /\ faults' = Count(o)
              /\ steps' = Did(op, step, target, e)
              /\ IF e = "nil"
                 THEN fs' = newFs /\ pc' = next /\ UNCHANGED <<idx, err, ret>>
                 ELSE fs' = fs /\ Return(op, e)
    /\ UNCHANGED <<repo, args, arch, calls>>

\* a step whose error the code drops: the call goes on whatever happened
Dropped(op, at, step, target, natural, newFs, next) ==
    /\ pc = at
    /\ \E o \in Outcomes :
          LET e == Result(o, natural)
          IN  /\ faults' = Count(o)
              /\ fs' = IF e = "nil" THEN newFs ELSE fs
              /\ steps' = Did(op, step, target, e)
    /\ pc' = next
    /\ UNCHANGED <<repo, args, arch, idx, err, ret, calls>>

\* a step whose error the code tests: on an error the call returns it, with
\* the text the code puts before it; after the last step the call returns nil
Checked(op, at, step, target, natural, newFs, newRepo, next, wrap) ==
    /\ pc = at
    /\ \E o \in Outcomes :
          LET e == Result(o, natural)
          IN  /\ faults' = Count(o)
              /\ steps' = Did(op, step, target, e)
              /\ IF e = "nil"
                 THEN /\ fs' = newFs
                      /\ repo' = newRepo
                      /\ IF next = "idle"
                         THEN Return(op, "nil")
                         ELSE pc' = next /\ UNCHANGED <<idx, err, ret>>
                 ELSE /\ Return(op, wrap \o e)
                      /\ UNCHANGED <<fs, repo>>
    /\ UNCHANGED <<args, arch, calls>>

(***************************************************************************)
(* AdjustGitopsRepo(cloudProvider, clusterName, clusterType, gitopsRepoDir,*)
(* gitopsRepoName, gitProvider, k1Dir, removeAtlantis).                    *)
(***************************************************************************)
G == "AdjustGitopsRepo"

\* the platform the pruning loop spares
SparedPlatform(cloudProvider, gitProvider) ==
    Platform(CloudProvider, gitProvider)

\* driverContent
DriverContent(gitopsRepoDir, cloudProvider, gitProvider) ==
    gitopsRepoDir \o <<Platform(CloudProvider, gitProvider)>>

\* clusterContent
ClusterContent(gitopsRepoDir, clusterType) ==
    gitopsRepoDir \o <<"cluster-types", clusterType>>

\* registryLocation
RegistryLocation(gitopsRepoDir, clusterName) ==
    gitopsRepoDir \o <<"registry", clusterName>>

\* the console manifest the call removes
ConsoleToRemove(hostArch, cloudProvider) ==
    IF hostArch = "arm64" /\ cloudProvider = CloudProvider
    THEN ConsoleAmd
    ELSE ConsoleArm

ReposTf(gitopsRepoDir) == gitopsRepoDir \o <<"terraform", "github", "repos.tf">>

ReposTfTmpl(gitopsRepoDir) ==
    gitopsRepoDir \o <<"terraform", "github", "repos.tf.tmpl">>

CallAdjustGitopsRepo ==
    /\ pc = "idle"
    /\ calls < MaxCalls
    /\ calls' = calls + 1
    /\ pc' = "g_prune"
    /\ idx' = 1
    /\ err' = "nil"
    /\ UNCHANGED <<fs, repo, args, arch, ret, steps, faults>>

\* one iteration of the loop over pkg.SupportedPlatforms; the error of
\* os.RemoveAll is dropped
GPrune ==
    /\ pc = "g_prune"
    /\ LET platform == SupportedPlatforms[idx]
           target   == args.gitopsRepoDir \o <<platform>>
       IN  \/ /\ platform # SparedPlatform(args.cloudProvider, args.gitProvider)
              /\ \E o \in Outcomes :
                    LET e == Result(o, "nil")
                    IN  /\ fs' = IF e = "nil" THEN RemoveAll(fs, target) ELSE fs
                        /\ steps' = Did(G, "prune", target, e)
                        /\ faults' = Count(o)
           \/ /\ platform = SparedPlatform(args.cloudProvider, args.gitProvider)
              /\ UNCHANGED <<fs, steps, faults>>
    /\ idx' = idx + 1
    /\ pc' = IF idx = Len(SupportedPlatforms) THEN "g_copyDriver" ELSE "g_prune"
    /\ UNCHANGED <<repo, args, arch, err, ret, calls>>

GCopyDriver ==
    LET src == DriverContent(args.gitopsRepoDir, args.cloudProvider,
                             args.gitProvider)
        dst == args.gitopsRepoDir
    IN  Checked(G, "g_copyDriver", "copyDriver", src,
                CopyErr(fs, src, dst, TRUE), Copy(fs, src, dst), repo,
                "g_rmDriver", "")

GRmDriver ==
    LET target == DriverContent(args.gitopsRepoDir, args.cloudProvider,
                                args.gitProvider)
    IN  Dropped(G, "g_rmDriver", "rmDriver", target, "nil",
                RemoveAll(fs, target), "g_copyCluster")

GCopyCluster ==
    LET src == ClusterContent(args.gitopsRepoDir, args.clusterType)
        dst == RegistryLocation(args.gitopsRepoDir, args.clusterName)
    IN  Checked(G, "g_copyCluster", "copyCluster", src,
                CopyErr(fs, src, dst, TRUE), Copy(fs, src, dst), repo,
                "g_rmClusterTypes", "")

GRmClusterTypes ==
    LET target == args.gitopsRepoDir \o <<"cluster-types">>
    IN  Dropped(G, "g_rmClusterTypes", "rmClusterTypes", target, "nil",
                RemoveAll(fs, target), "g_rmServices")

GRmServices ==
    LET target == args.gitopsRepoDir \o <<"services">>
    IN  Dropped(G, "g_rmServices", "rmServices", target, "nil",
                RemoveAll(fs, target), "g_rmConsole")

GRmConsole ==
    LET target == RegistryLocation(args.gitopsRepoDir, args.clusterName)
                    \o ConsoleToRemove(arch, args.cloudProvider)
    IN  Dropped(G, "g_rmConsole", "rmConsole", target, RemoveErr(fs, target),
                Remove(fs, target),
                IF args.removeAtlantis THEN "g_rmAtlantis" ELSE "g_copyTmpl")

GRmAtlantis ==
    LET target == RegistryLocation(args.gitopsRepoDir, args.clusterName)
                    \o <<"atlantis.yaml">>
    IN  Dropped(G, "g_rmAtlantis", "rmAtlantis", target, RemoveErr(fs, target),
                Remove(fs, target), "g_copyTmpl")

\* whether the cp.Copy call of a step is given the copy options: every call
\* but the one that copies repos.tf.tmpl is
WithOptions(step) == step # "copyTmpl"

GCopyTmpl ==
    LET src == ReposTfTmpl(args.gitopsRepoDir)
        dst == ReposTf(args.gitopsRepoDir)
        opt == WithOptions("copyTmpl")
    IN  Checked(G, "g_copyTmpl", "copyTmpl", src,
                CopyErr(fs, src, dst, opt), CopyInto(fs, src, dst, opt), repo,
                "g_sed", "")

GSed ==
    LET path == ReposTf(args.gitopsRepoDir)
    IN  Checked(G, "g_sed", "sed", path, SedErr(fs, path),
                Sed(fs, path, GitopsPlaceholder, args.gitopsRepoName), repo,
                "idle", "")

AdjustGitopsRepo ==
    \/ CallAdjustGitopsRepo
    \/ GPrune
    \/ GCopyDriver
    \/ GRmDriver
    \/ GCopyCluster
    \/ GRmClusterTypes
    \/ GRmServices
    \/ GRmConsole
    \/ GRmAtlantis
    \/ GCopyTmpl
    \/ GSed

(***************************************************************************)
(* AdjustMetaphorRepo(destinationMetaphorRepoGitURL, gitopsRepoDir,        *)
(* metaphorRepoName, gitProvider, k1Dir).                                  *)
(***************************************************************************)
M == "AdjustMetaphorRepo"

\* WrapRemoveRef, were the text that of the substitution
WrapRemoveRefAsReplace == "error replacing gitops repo name in repos.tf: "

WrapRemoveRef == "error removing previous git ref: "

WrapReplace == "error replacing gitops repo name in repos.tf: "

WrapCreateRemote(url) ==
    "error problem creating Metaphore repo: URL=" \o url \o ": "

\* metaphorDir
MetaphorDir(k1Dir) == k1Dir \o <<"metaphor">>

\* metaphorContent
MetaphorContent(gitopsRepoDir) == gitopsRepoDir \o <<"metaphor">>

\* CiSource, were the two cases of the switch exchanged
CiSourceSwapped(gitProvider) ==
    IF gitProvider = "github" THEN ".gitlab-ci.yml"
    ELSE IF gitProvider = "gitlab" THEN ".github"
    ELSE ""

\* CiSource, were the github case the default of the switch
CiSourceDefaultGithub(gitProvider) ==
    IF gitProvider = "gitlab" THEN ".gitlab-ci.yml" ELSE ".github"

\* the switch on gitProvider: the entry of ci that is copied, under the same
\* name, into the metaphor directory; "" when the switch has no case
CiSource(gitProvider) ==
    IF gitProvider = "github" THEN ".github"
    ELSE IF gitProvider = "gitlab" THEN ".gitlab-ci.yml"
    ELSE ""

\* the ci content is read below k1Dir
CiContent(k1Dir, name) == k1Dir \o <<"gitops", "ci", name>>

CallAdjustMetaphorRepo ==
    /\ pc = "idle"
    /\ calls < MaxCalls
    /\ calls' = calls + 1
    /\ \E gitProvider \in MetaphorGitProviders(args.gitProvider) :
          args' = [args EXCEPT !.metaphorGitProvider = gitProvider]
    /\ pc' = "m_mkdir"
    /\ err' = "nil"
    /\ UNCHANGED <<fs, repo, arch, idx, ret, steps, faults>>

MMkdir ==
    LET dir == MetaphorDir(args.k1Dir)
    IN  Dropped(M, "m_mkdir", "mkdir", dir, MkdirErr(fs, dir), Mkdir(fs, dir),
                "m_init")

MInit ==
    LET dir == MetaphorDir(args.k1Dir)
    IN  Checked(M, "m_init", "init", dir, PlainInitErr(fs, dir),
                MkdirAll(fs, DotGit(dir)), PlainInit, "m_copyMetaphor", "")

MCopyMetaphor ==
    LET src == MetaphorContent(args.gitopsRepoDir)
        dst == MetaphorDir(args.k1Dir)
    IN  Checked(M, "m_copyMetaphor", "copyMetaphor", src,
                CopyErr(fs, src, dst, TRUE), Copy(fs, src, dst), repo,
                "m_copyCi", "")

MCopyCi ==
    LET name == CiSource(args.metaphorGitProvider)
    IN  \/ /\ name # ""
           /\ LET src == CiContent(args.k1Dir, name)
                  dst == MetaphorDir(args.k1Dir) \o <<name>>
              IN  Checked(M, "m_copyCi", "copyCi", src,
                          CopyErr(fs, src, dst, TRUE), Copy(fs, src, dst), repo,
                          "m_copyArgo", "")
        \/ /\ name = ""
           /\ pc = "m_copyCi"
           /\ pc' = "m_copyArgo"
           /\ UNCHANGED <<fs, repo, args, arch, idx, err, ret, steps,
                          faults, calls>>

MCopyArgo ==
    LET src == CiContent(args.k1Dir, ".argo")
        dst == MetaphorDir(args.k1Dir) \o <<".argo">>
    IN  Checked(M, "m_copyArgo", "copyArgo", src, CopyErr(fs, src, dst, TRUE),
                Copy(fs, src, dst), repo, "m_mkdirBuild", "")

MMkdirBuild ==
    LET dir == MetaphorDir(args.k1Dir) \o <<"build">>
    IN  Dropped(M, "m_mkdirBuild", "mkdirBuild", dir, MkdirErr(fs, dir),
                Mkdir(fs, dir), "m_copyDockerfile")

\* the Dockerfile is read from the metaphor directory itself
MCopyDockerfile ==
    LET src == MetaphorDir(args.k1Dir) \o <<"Dockerfile">>
        dst == MetaphorDir(args.k1Dir) \o <<"build", "Dockerfile">>
    IN  Checked(M, "m_copyDockerfile", "copyDockerfile", src,
                CopyErr(fs, src, dst, TRUE), Copy(fs, src, dst), repo,
                "m_rmCi", "")

MRmCi ==
    LET target == args.gitopsRepoDir \o <<"ci">>
    IN  Dropped(M, "m_rmCi", "rmCi", target, "nil", RemoveAll(fs, target),
                "m_rmMetaphor")

MRmMetaphor ==
    LET target == args.gitopsRepoDir \o <<"metaphor">>
    IN  Dropped(M, "m_rmMetaphor", "rmMetaphor", target, "nil",
                RemoveAll(fs, target), "m_commit")

MCommit ==
    LET dir == MetaphorDir(args.k1Dir)
    IN  Checked(M, "m_commit", "commit", dir, "nil", fs,
                Commit(repo, fs, dir, CommitMessage), "m_setRef", "")

MSetRef ==
    Checked(M, "m_setRef", "setRefToMainBranch", <<"main">>,
            SetRefToMainBranchErr(repo), fs, SetRefToMainBranch(repo),
            "m_removeRef", "")

MRemoveRef ==
    Checked(M, "m_removeRef", "removeReference", <<"master">>, "nil", fs,
            RemoveReference(repo, "master"), "m_sed", WrapRemoveRef)

MSed ==
    LET path == ReposTf(args.gitopsRepoDir)
    IN  Checked(M, "m_sed", "sed", path, SedErr(fs, path),
                Sed(fs, path, MetaphorPlaceholder, args.metaphorRepoName), repo,
                "m_createRemote", WrapReplace)

MCreateRemote ==
    LET url == args.destinationMetaphorRepoGitURL
    IN  Checked(M, "m_createRemote", "createRemote", <<"origin">>,
                CreateRemoteErr(repo, "origin"), fs,
                CreateRemote(repo, "origin", <<url>>), "idle",
                WrapCreateRemote(url))

AdjustMetaphorRepo ==
    \/ CallAdjustMetaphorRepo
    \/ MMkdir
    \/ MInit
    \/ MCopyMetaphor
    \/ MCopyCi
    \/ MCopyArgo
    \/ MMkdirBuild
    \/ MCopyDockerfile
    \/ MRmCi
    \/ MRmMetaphor
    \/ MCommit
    \/ MSetRef
    \/ MRemoveRef
    \/ MSed
    \/ MCreateRemote

Next == AdjustGitopsRepo \/ AdjustMetaphorRepo

Spec == Init /\ [][Next]_vars

SpecReliable == InitReliable /\ [][Next]_vars

(***************************************************************************)
(* Vocabulary of the properties.                                           *)
(***************************************************************************)
\* the template tree the behaviour started from
Template0 == TemplateTree(args.gitopsRepoDir)

\* the variant the caller selects
Selected == Platform(args.cloudProvider, args.gitProvider)

SupportedPair == Selected \in Platforms

\* the call that returned last, and how
Returned(op) == pc = "idle" /\ ret.op = op

Succeeded(op) == Returned(op) /\ ret.err = "nil"

\* the path a template file was created at
Origin(f, p) == f[p].content[1]

\* the variant a file comes from, "" for a file of the template root
OriginVariant(f, p) ==
    LET o == Origin(f, p)
        n == Len(args.gitopsRepoDir) + 1
    IN  IF IsPrefix(args.gitopsRepoDir, o) /\ Len(o) >= n /\ o[n] \in Platforms
        THEN o[n]
        ELSE ""

Registry == RegistryLocation(args.gitopsRepoDir, args.clusterName)

StepsOf(op, step) ==
    {i \in DOMAIN steps : steps[i].op = op /\ steps[i].step = step}

(***************************************************************************)
(* AdjustGitopsRepo: the tree after a call that returned nil.              *)
(***************************************************************************)
\* C1: for a supported pair the pruning spares the caller-selected variant
\* only, and after a successful return no file that comes from another
\* variant is in the tree.
C1_OnlySelectedVariantPromoted ==
    (Succeeded(G) /\ SupportedPair) =>
        /\ \A i \in StepsOf(G, "prune") :
              steps[i].target # args.gitopsRepoDir \o <<Selected>>
        /\ \A p \in DOMAIN fs :
              IsFile(fs, p) => OriginVariant(fs, p) \in {"", Selected}

\* C2: after a successful return the root holds no subtree named for a
\* supported pair, and the content of the selected variant has been copied
\* to the root.
C2_NoVariantSubtreeLeft ==
    (Succeeded(G) /\ SupportedPair) =>
        /\ \A v \in Platforms : ~Exists(fs, args.gitopsRepoDir \o <<v>>)
        /\ IsFile(fs, ReposTfTmpl(args.gitopsRepoDir))
        /\ OriginVariant(fs, ReposTfTmpl(args.gitopsRepoDir)) = Selected

\* C3: after a successful return registry/{clusterName} holds the content of
\* cluster-types/{clusterType} of the selected cluster type only, and neither
\* cluster-types nor services is left under the root.
C3_RegistryFromClusterType ==
    Succeeded(G) =>
        /\ IsDir(fs, Registry)
        /\ \A p \in Under(fs, Registry) :
              IsFile(fs, p) =>
                 \E v \in Platforms :
                    Origin(fs, p) =
                       Rebase(p, Registry,
                              args.gitopsRepoDir
                                 \o <<v, "cluster-types", args.clusterType>>)
        /\ ~Exists(fs, args.gitopsRepoDir \o <<"cluster-types">>)
        /\ ~Exists(fs, args.gitopsRepoDir \o <<"services">>)

\* C4: after a successful return exactly one console manifest is left under
\* the registry: the ARM one if and only if the host is arm64 and the
\* caller's cloudProvider is k3d, the AMD one otherwise.
C4_ExactlyOneConsole ==
    Succeeded(G) =>
        LET arm == Exists(fs, Registry \o ConsoleArm)
            amd == Exists(fs, Registry \o ConsoleAmd)
        IN  /\ arm # amd
            /\ arm <=> (arch = "arm64" /\ args.cloudProvider = CloudProvider)

\* C5: after a successful return atlantis.yaml is absent from the registry
\* when removeAtlantis is true, and present when it is false and the cluster
\* type held one.
C5_AtlantisFollowsFlag ==
    Succeeded(G) =>
        LET atlantis == Exists(fs, Registry \o <<"atlantis.yaml">>)
        IN  /\ args.removeAtlantis => ~atlantis
            /\ (/\ ~args.removeAtlantis
                /\ args.clusterType \in ClusterTypesWithAtlantis) => atlantis

\* C6: after a successful return repos.tf is repos.tf.tmpl with every
\* occurrence of GITOPS_REPO_NAME replaced by the quoted gitopsRepoName: it
\* holds the quoted name and the placeholder no more.
C6_PlaceholderReplaced ==
    Succeeded(G) =>
        LET tf   == fs[ReposTf(args.gitopsRepoDir)].content
            tmpl == fs[ReposTfTmpl(args.gitopsRepoDir)].content
        IN  /\ \E n \in DOMAIN tf : \E i \in DOMAIN tf[n] :
                  tf[n][i] = Quoted(args.gitopsRepoName)
            /\ \A n \in DOMAIN tf : \A i \in DOMAIN tf[n] :
                  tf[n][i] # GitopsPlaceholder
            /\ DOMAIN tf = DOMAIN tmpl
            /\ \A n \in DOMAIN tf :
                  tf[n] = [i \in DOMAIN tmpl[n] |->
                              IF tmpl[n][i] = GitopsPlaceholder
                              THEN Quoted(args.gitopsRepoName)
                              ELSE tmpl[n][i]]

(***************************************************************************)
(* Failures.                                                               *)
(***************************************************************************)
CopySteps ==
    {"copyDriver", "copyCluster", "copyTmpl", "copyMetaphor", "copyCi",
     "copyArgo", "copyDockerfile"}

DeleteSteps ==
    {"prune", "rmDriver", "rmClusterTypes", "rmServices", "rmConsole",
     "rmAtlantis", "rmCi", "rmMetaphor"}

\* a copy that returned an error, a removal that returned one on a path that
\* exists (the removal of an absent path is no failure)
Failed(i) ==
    IF steps[i].step \in CopySteps
    THEN steps[i].err # "nil"
    ELSE steps[i].err \notin {"nil", "ENOENT"}

\* C7: in both functions a copy step or a delete step that fails ends the
\* call: no later step of the call is executed and the call returns the
\* error of that step.
C7_CopyOrDeleteFailureAborts ==
    \A i \in DOMAIN steps :
        (steps[i].step \in CopySteps \cup DeleteSteps /\ Failed(i)) =>
            /\ \A j \in DOMAIN steps : j > i => steps[j].call # steps[i].call
            /\ (i = Len(steps) /\ steps[i].call = calls) =>
                  /\ pc = "idle"
                  /\ ret = [op |-> steps[i].op, err |-> steps[i].err]

(***************************************************************************)
(* AdjustMetaphorRepo: the states of the metaphor repository.              *)
(*   0 absent, 1 initialized, 2 populated, 3 committed,                    *)
(*   4 branch-normalized, 5 remote-attached                                *)
(***************************************************************************)
HasRef(r, name) == \E x \in r.refs : x.name = name

Normalized(r) ==
    /\ r.commits # <<>>
    /\ r.head = "main"
    /\ HasRef(r, "main")
    /\ ~HasRef(r, "master")

\* the worktree of the metaphor repository holds a file
Populated ==
    \E p \in DOMAIN fs :
        /\ IsPrefix(MetaphorDir(args.k1Dir), p)
        /\ fs[p].kind = "file"
        /\ ~IsPrefix(DotGit(MetaphorDir(args.k1Dir)), p)

RepoState ==
    IF ~repo.init THEN 0
    ELSE IF repo.remotes # {} THEN 5
    ELSE IF Normalized(repo) THEN 4
    ELSE IF repo.commits # <<>> THEN 3
    ELSE IF Populated THEN 2
    ELSE 1

\* the steps of AdjustMetaphorRepo that act on the metaphor repository or
\* return an error; the calls whose error is dropped (os.Mkdir, the removal
\* of the gitops ci and metaphor subtrees) are the subject of C7
RepositorySteps ==
    {"init", "copyMetaphor", "copyCi", "copyArgo", "copyDockerfile", "commit",
     "setRefToMainBranch", "removeReference", "sed", "createRemote"}

\* the step of AdjustMetaphorRepo taken now, <<>> when none is
StepNow ==
    IF Len(steps') = Len(steps) + 1 /\ steps'[Len(steps')].op = M
    THEN <<steps'[Len(steps')]>>
    ELSE <<>>

\* the states a step that succeeds starts in and ends in
StatesOf(step) ==
    IF step = "init" THEN <<{0}, {1}>>
    ELSE IF step \in CopySteps THEN <<{1, 2}, {2}>>
    ELSE IF step = "commit" THEN <<{2}, {3}>>
    ELSE IF step = "setRefToMainBranch" THEN <<{3}, {3}>>
    ELSE IF step = "removeReference" THEN <<{3}, {4}>>
    ELSE IF step = "sed" THEN <<{4}, {4}>>
    ELSE IF step = "createRemote" THEN <<{4}, {5}>>
    ELSE <<0..5, 0..5>>

C9_OneCommitMainOrigin ==
    Succeeded(M) =>
        /\ Len(repo.commits) = 1
        /\ repo.commits[1].message = CommitMessage
        /\ repo.head = "main"
        /\ repo.refs = {[name |-> "main", commit |-> 1]}
        /\ repo.remotes = {[name |-> "origin",
                            urls |-> <<args.destinationMetaphorRepoGitURL>>]}

C9_Witness ==
    /\ Succeeded(M)
    /\ Len(repo.commits) = 1
    /\ StepsOf(M, "removeReference") # {}
    /\ StepsOf(M, "createRemote") # {}

\* everything of the template below src is, unless filtered, below dst and
\* in the commit
Placed(src, dst) ==
    \A p \in Copied(Template0, src, TRUE) :
        LET q == Rebase(p, src, dst)
        IN  /\ Exists(fs, q)
            /\ fs[q] = Template0[p]
            /\ IsFile(fs, q) => q \in repo.commits[1].tree

C11_EveryCopyFiltered ==
    \A i \in DOMAIN steps :
        steps[i].step \in CopySteps => WithOptions(steps[i].step)

\* the copy of repos.tf.tmpl, made without the filter, writes what a copy
\* with the filter would write: its source is a regular file
CopyTmplAsFiltered ==
    pc = "g_copyTmpl" =>
        LET src == ReposTfTmpl(args.gitopsRepoDir)
            dst == ReposTf(args.gitopsRepoDir)
        IN  /\ CopyErr(fs, src, dst, FALSE) = CopyErr(fs, src, dst, TRUE)
            /\ CopyInto(fs, src, dst, FALSE) = CopyInto(fs, src, dst, TRUE)

(***************************************************************************)
(* Deletions.                                                              *)
(***************************************************************************)
\* the step taken now, <<>> when none is
NewStep ==
    IF Len(steps') = Len(steps) + 1 THEN <<steps'[Len(steps')]>> ELSE <<>>

\* C12: the deletion of a path that is absent produces no error: in both
\* functions a delete step whose target is not there leaves the tree as it
\* is and the call goes on to its next step, nothing being returned.
C12_AbsentPathNoError ==
    [][\A i \in DOMAIN NewStep :
          LET s == NewStep[i]
          IN  (s.step \in DeleteSteps /\ ~Exists(fs, s.target)) =>
                 /\ fs' = fs
                 /\ pc' # "idle"
                 /\ ret' = ret]_vars

\* AdjustGitopsRepo returned nil although atlantis.yaml was absent when it
\* was to be removed, then AdjustMetaphorRepo returned nil although the ci
\* subtree of gitopsRepoDir was absent at the cleanup
C12_Witness ==
    /\ Succeeded(M)
    /\ ~Exists(Template0, args.gitopsRepoDir \o <<"ci">>)
    /\ \E i \in StepsOf(M, "rmCi") :
          steps[i].call = calls /\ steps[i].err = "nil"
    /\ \E i \in StepsOf(G, "rmAtlantis") : steps[i].err = "ENOENT"
    /\ \E i \in StepsOf(G, "sed") : steps[i].err = "nil"

(***************************************************************************)
(* AdjustMetaphorRepo: a git provider the switch has no case for.          *)
(***************************************************************************)
\* the steps of AdjustMetaphorRepo that follow the copy of the ci content
StepsAfterCi ==
    {"copyArgo", "mkdirBuild", "copyDockerfile", "rmCi", "rmMetaphor",
     "commit", "setRefToMainBranch", "removeReference", "sed", "createRemote"}

\* the steps the running or last call has logged
StepsOfCall ==
    {steps[i].step : i \in {j \in DOMAIN steps : steps[j].call = calls}}

\* C13: a call of AdjustMetaphorRepo whose gitProvider is neither github nor
\* gitlab copies no ci content of a provider, goes from the copy of the
\* metaphor content on to the copy of .argo without an error, and when it
\* returns nil it has carried out every later step; the metaphor directory
\* then holds neither .github nor .gitlab-ci.yml.
C13_OtherProviderCopiesNoCi ==
    (/\ args.metaphorGitProvider \notin {"github", "gitlab"}
     /\ \E i \in StepsOf(M, "mkdir") : steps[i].call = calls) =>
        LET dir == MetaphorDir(args.k1Dir)
        IN  /\ "copyCi" \notin StepsOfCall
            /\ \A i \in StepsOf(M, "copyMetaphor") :
                  (steps[i].call = calls /\ steps[i].err = "nil") =>
                     \/ pc = "m_copyCi"
                     \/ pc = "m_copyArgo"
                     \/ "copyArgo" \in StepsOfCall
            /\ Succeeded(M) =>
                  /\ StepsAfterCi \subseteq StepsOfCall
                  /\ ~Exists(fs, dir \o <<".github">>)
                  /\ ~Exists(fs, dir \o <<".gitlab-ci.yml">>)
                  /\ Placed(args.k1Dir \o <<"gitops", "ci", ".argo">>,
                            dir \o <<".argo">>)

C13_Witness ==
    /\ Succeeded(M)
    /\ args.metaphorGitProvider = "bitbucket"
    /\ "createRemote" \in StepsOfCall
    /\ RepoState = 5

(***************************************************************************)
(* No retry, no rollback, one error.                                       *)
(***************************************************************************)
\* a step that returned an error; the removal of an absent path is none
FailedStep(i) ==
    IF steps[i].step \in DeleteSteps
    THEN steps[i].err \notin {"nil", "ENOENT"}
    ELSE steps[i].err # "nil"

\* the texts the code puts before the error it returns
Wraps ==
    {"", WrapRemoveRef, WrapReplace,
     WrapCreateRemote(args.destinationMetaphorRepoGitURL)}

\* no step of a call is attempted twice
AttemptedOnce ==
    \A i, j \in DOMAIN steps :
        (i < j /\ steps[i].call = steps[j].call) =>
            \/ steps[i].step # steps[j].step
            \/ steps[i].target # steps[j].target

\* when a call has returned an error, what its steps deleted is still
\* deleted and a repos.tf it rewrote still holds the metaphor name
EffectsPersist ==
    (pc = "idle" /\ ret.err # "nil") =>
        /\ \A i \in DOMAIN steps :
              (/\ steps[i].call = calls
               /\ steps[i].step \in DeleteSteps
               /\ steps[i].err = "nil") => ~Exists(fs, steps[i].target)
        /\ \A i \in StepsOf(M, "sed") :
              (steps[i].call = calls /\ steps[i].err = "nil") =>
                 LET tf == fs[ReposTf(args.gitopsRepoDir)].content
                 IN  \E n \in DOMAIN tf : \E k \in DOMAIN tf[n] :
                        tf[n][k] = Quoted(args.metaphorRepoName)

\* the first step of a call that fails is its last, and its error is the
\* one the call returns
FirstErrorReturned ==
    \A i \in DOMAIN steps :
        FailedStep(i) =>
            /\ \A j \in DOMAIN steps : j > i => steps[j].call # steps[i].call
            /\ (i = Len(steps) /\ steps[i].call = calls) =>
                  /\ pc = "idle"
                  /\ ret.op = steps[i].op
                  /\ \E w \in Wraps : ret.err = w \o steps[i].err

\* C14: neither function retries or rolls back: a step is attempted at most
\* once in a call, what the steps before a failing step did persists, and
\* the call returns exactly the error of its first failing step.
C14_NoRetryNoRollbackOneError ==
    AttemptedOnce /\ EffectsPersist /\ FirstErrorReturned

(***************************************************************************)
(* AdjustMetaphorRepo: the errors of the last three steps.                 *)
(***************************************************************************)
StartsWith(str, prefix) ==
    Len(prefix) <= Len(str) /\ SubSeq(str, 1, Len(prefix)) = prefix

Contains(str, part) ==
    \E k \in 1..(Len(str) - Len(part) + 1) :
        SubSeq(str, k, k + Len(part) - 1) = part

\* the last step of the running or last call, <<>> before its first step
LastStep ==
    IF steps # <<>> /\ steps[Len(steps)].call = calls
    THEN <<steps[Len(steps)]>>
    ELSE <<>>

\* C15: when the removal of the master reference fails, AdjustMetaphorRepo
\* returns at once an error that names that step and that no other failure
\* of the call gives; repos.tf has not received the metaphor name and no
\* remote is attached.  When the attachment of the remote fails the error
\* returned carries the destination URL.
C15_RemoveRefAndRemoteErrors ==
    (Returned(M) /\ ret.err # "nil") =>
        \A i \in DOMAIN LastStep :
            LET s   == LastStep[i]
                tf  == ReposTf(args.gitopsRepoDir)
                url == args.destinationMetaphorRepoGitURL
            IN  /\ s.err # "nil"
                /\ StartsWith(ret.err, WrapRemoveRef)
                      <=> s.step = "removeReference"
                /\ s.step = "removeReference" =>
                      /\ ret.err = WrapRemoveRef \o s.err
                      /\ {"sed", "createRemote"} \cap StepsOfCall = {}
                      /\ repo.remotes = {}
                      /\ IsFile(fs, tf) =>
                            \A n \in DOMAIN fs[tf].content :
                               \A k \in DOMAIN fs[tf].content[n] :
                                  fs[tf].content[n][k]
                                     # Quoted(args.metaphorRepoName)
                /\ s.step = "createRemote" =>
                      /\ Contains(ret.err, url)
                      /\ ret.err = WrapCreateRemote(url) \o s.err

\* the removal of master failed in a call that could have gone on: repos.tf
\* is there to be rewritten
C15_Witness ==
    /\ Returned(M)
    /\ \E i \in DOMAIN LastStep :
          LastStep[i].step = "removeReference" /\ LastStep[i].err # "nil"
    /\ IsFile(fs, ReposTf(args.gitopsRepoDir))

\* the attachment of the remote failed
RemoteFailed ==
    /\ Returned(M)
    /\ \E i \in DOMAIN LastStep :
          LastStep[i].step = "createRemote" /\ LastStep[i].err # "nil"

(***************************************************************************)
(* AdjustMetaphorRepo: the cleanup of the gitops tree.                     *)
(***************************************************************************)
\* the running or last call has deleted the ci and metaphor subtrees
CleanedUp ==
    /\ \E i \in StepsOf(M, "rmCi") :
          steps[i].call = calls /\ steps[i].err = "nil"
    /\ \E i \in StepsOf(M, "rmMetaphor") :
          steps[i].call = calls /\ steps[i].err = "nil"

\* every copy of the call read below a subtree the call deleted, or in the
\* metaphor directory itself
ReadWhereDeleted ==
    CleanedUp =>
        \A i \in DOMAIN steps :
            (steps[i].call = calls /\ steps[i].step \in CopySteps) =>
                \/ IsPrefix(args.gitopsRepoDir \o <<"ci">>, steps[i].target)
                \/ IsPrefix(args.gitopsRepoDir \o <<"metaphor">>,
                            steps[i].target)
                \/ IsPrefix(MetaphorDir(args.k1Dir), steps[i].target)

\* every file that was below the deleted subtrees and is not filtered is in
\* the metaphor directory
DeletedWasCopied ==
    CleanedUp =>
        \A sub \in {"ci", "metaphor"} :
            LET src == args.gitopsRepoDir \o <<sub>>
            IN  \A p \in Copied(Template0, src, TRUE) :
                    IsFile(Template0, p) =>
                       \E q \in Under(fs, MetaphorDir(args.k1Dir)) :
                          fs[q] = Template0[p]

\* C16: when AdjustMetaphorRepo deletes the ci and metaphor subtrees of the
\* gitops tree they have been consumed in full: the subtrees deleted are
\* the ones the content was read from, and every file below them that the
\* filter lets through has been copied into the metaphor repository.
C16_DeletedSubtreesConsumed == ReadWhereDeleted /\ DeletedWasCopied

\* the steps of AdjustMetaphorRepo that follow the cleanup
StepsAfterCleanup ==
    {"commit", "setRefToMainBranch", "removeReference", "sed", "createRemote"}

\* the ci and metaphor subtrees of the gitops tree
GitopsSubtrees(f) ==
    Under(f, args.gitopsRepoDir \o <<"ci">>)
        \cup Under(f, args.gitopsRepoDir \o <<"metaphor">>)

\* a deletion of the cleanup comes after the copies of its call, which all
\* returned nil
CleanupAfterCopies ==
    \A i \in StepsOf(M, "rmCi") \cup StepsOf(M, "rmMetaphor") :
        /\ \A st \in {"copyMetaphor", "copyArgo", "copyDockerfile"} :
              \E j \in StepsOf(M, st) :
                 j < i /\ steps[j].call = steps[i].call
        /\ \A j \in DOMAIN steps :
              (steps[j].call = steps[i].call /\ steps[j].step \in CopySteps) =>
                 j < i /\ steps[j].err = "nil"
        /\ \A j \in DOMAIN steps :
              (/\ steps[j].call = steps[i].call
               /\ steps[j].step \in StepsAfterCleanup) => i < j

\* a copy that fails leaves the two subtrees as they were
FailedCopyLeavesSubtrees ==
    (Returned(M) /\ ret.err # "nil") =>
        \A i \in DOMAIN LastStep :
            LastStep[i].step \in CopySteps =>
                /\ GitopsSubtrees(fs) = GitopsSubtrees(Template0)
                /\ \A p \in GitopsSubtrees(fs) : fs[p] = Template0[p]

\* a later step that fails leaves the gitops tree without the two subtrees
LaterFailureLeavesStripped ==
    (Returned(M) /\ ret.err # "nil") =>
        \A i \in DOMAIN LastStep :
            LastStep[i].step \in StepsAfterCleanup =>
                GitopsSubtrees(fs) = {}

\* C17: AdjustMetaphorRepo deletes the ci and metaphor subtrees of the gitops
\* tree only after the metaphor, provider ci, .argo and Dockerfile copies
\* have all succeeded, a failing copy leaving both subtrees intact, and
\* before the commit, so that a failing commit, branch normalization,
\* substitution or remote attachment leaves the gitops tree without them.
C17_CleanupBetweenCopiesAndCommit ==
    /\ CleanupAfterCopies
    /\ FailedCopyLeavesSubtrees
    /\ LaterFailureLeavesStripped

(***************************************************************************)
(* What the copy filter lets through.                                      *)
(***************************************************************************)
\* p, below src, is a directory named .git or .terraform or lies in one
InMetadataDir(src, p) ==
    \E n \in (Len(src) + 1)..Len(p) :
        /\ p[n] \in {".git", ".terraform"}
        /\ IsDir(Template0, SubSeq(p, 1, n))

\* the files of the template below src are below dst, but for those of a
\* .git or .terraform directory, which are not
CopiedButMetadata(src, dst) ==
    \A p \in Under(Template0, src) :
        IsFile(Template0, p) =>
            LET q == Rebase(p, src, dst)
            IN  (IsFile(fs, q) /\ fs[q] = Template0[p])
                   <=> ~InMetadataDir(src, p)

\* C18: the filter skips a path exactly when it is a .git directory or lies
\* in a .terraform directory: once the variant content or the metaphor
\* content has been copied, every other file of the source, a file whose
\* name ends in .git or .terraform.lock.hcl included, is at the destination.
C18_FilterSkipsMetadataOnly ==
    /\ pc = "g_rmDriver" =>
          CopiedButMetadata(DriverContent(args.gitopsRepoDir,
                                          args.cloudProvider, args.gitProvider),
                            args.gitopsRepoDir)
    /\ pc = "m_copyCi" =>
          CopiedButMetadata(MetaphorContent(args.gitopsRepoDir),
                            MetaphorDir(args.k1Dir))

\* the part of C18 that holds: what lies in a .git or .terraform directory
\* is never copied
MetadataNeverCopied ==
    \A q \in DOMAIN fs :
        IsFile(fs, q) =>
            \/ Origin(fs, q) = q
            \/ \A src \in {DriverContent(args.gitopsRepoDir,
                                         args.cloudProvider, args.gitProvider),
                           MetaphorContent(args.gitopsRepoDir)} :
                  ~(/\ IsPrefix(src, Origin(fs, q))
                    /\ InMetadataDir(src, Origin(fs, q)))

(***************************************************************************)
(* Second invocations.                                                     *)
(***************************************************************************)
GLabels ==
    {"g_prune", "g_copyDriver", "g_rmDriver", "g_copyCluster",
     "g_rmClusterTypes", "g_rmServices", "g_rmConsole", "g_rmAtlantis",
     "g_copyTmpl", "g_sed"}

\* AdjustGitopsRepo is running, called right after a call of it that
\* returned nil
SecondAdjustGitopsRepo ==
    /\ pc \in GLabels
    /\ \E i \in StepsOf(G, "sed") :
          steps[i].call = calls - 1 /\ steps[i].err = "nil"

\* C19: AdjustGitopsRepo called again with the same arguments on the tree a
\* successful call produced changes nothing in the tree, registry and
\* repos.tf included, and returns an error at the copy of the variant
\* content.
C19_SecondCallFailsAtVariantCopy ==
    [][SecondAdjustGitopsRepo =>
          /\ fs' = fs
          /\ pc' = "idle" =>
                /\ ret'.op = G
                /\ ret'.err # "nil"
                /\ steps'[Len(steps')].step = "copyDriver"]_vars

\* the second call returned at the copy of the variant content
SecondCallFailed ==
    /\ Returned(G)
    /\ ret.err = "ENOENT"
    /\ \E i \in StepsOf(G, "sed") :
          steps[i].call = calls - 1 /\ steps[i].err = "nil"
    /\ IsFile(fs, ReposTf(args.gitopsRepoDir))
    /\ IsDir(fs, Registry)

\* C20: when the metaphor directory holds an initialized repository as
\* AdjustMetaphorRepo is called, the call returns an error at the init step
\* and has changed nothing: neither the history and the remotes of the
\* repository nor the gitops tree, nor any other file.
C20_InitRefusesExistingRepository ==
    [][(pc \in {"m_mkdir", "m_init"} /\ repo.init) =>
          /\ fs' = fs
          /\ repo' = repo
          /\ pc = "m_init" =>
                /\ pc' = "idle"
                /\ ret'.op = M
                /\ ret'.err # "nil"
                /\ steps'[Len(steps')].step = "init"]_vars

\* a second call was refused on a repository that has its commit, the
\* gitops tree being without ci and metaphor since the first call
C20_Witness ==
    /\ Returned(M)
    /\ ret.err = ErrRepositoryAlreadyExists
    /\ StepsOfCall = {"mkdir", "init"}
    /\ Len(repo.commits) = 1
    /\ repo.head = "main"
    /\ GitopsSubtrees(fs) = {}

====
